---- MODULE Spec2Model ----
(***************************************************************************)
(* Model of StorageComponent (src/storage_component.py): a facade that     *)
(* keeps a registry of disks (config), a cache of backend adapters         *)
(* (filesystem), the active disk, and delegates file operations to the     *)
(* adapter of the active disk, building it lazily.                         *)
(*                                                                         *)
(* The backends (OSFS, S3FS, SFTPFS of PyFilesystem) are external; their   *)
(* contents are the variable store, keyed by the target an adapter was     *)
(* constructed on, and their failures are nondeterministic inputs.         *)
(***************************************************************************)
EXTENDS Integers, Sequences, FiniteSets, TLC

VARIABLES
    config,         \* self.config['disks']: disk name -> disk configuration
    filesystem,     \* self.filesystem: disk name -> adapter handle
    active_disk,    \* self.active_disk
    disk_config,    \* self.disk_config: configuration read by the last lookup
    store,          \* contents of the backends: target -> (path -> content)
    constructions,  \* per disk name, how many times a _create_*_driver ran
    calls,          \* how many calls the facade has served
    last,           \* the most recent call on the facade and its outcome
    thr             \* per thread inside disk(): where it is and its local variables

vars == <<config, filesystem, active_disk, disk_config, store, constructions, calls, last, thr>>

----------------------------------------------------------------------------
(* Bounds *)

\* the facade is called at most this many times
MaxCalls == 4

----------------------------------------------------------------------------
(* Values *)

\* Python's None
None == "None"

\* a path that holds no file
Absent == "Absent"

\* self.default_disk
default_disk == "local"

\* file paths below a backend's root, and file contents
Paths == {"a", "b"}
Contents == {"x", "y"}

\* directories handed to listing: the root and one that does not exist
RootDir == "/"
MissingDir == "/missing"
Dirs == {RootDir, MissingDir}

\* paths on the machine the program runs on, handed to put as the source
LocalReadable == "steg.py"
LocalUnreadable == "gone.py"
LocalSources == {LocalReadable, LocalUnreadable}

\* content of the readable local source file
LocalContent == "x"

\* the registry of src/config.py; a root is the sequence of its components
ShippedConfig ==
    [local |-> [driver |-> "local", root |-> <<>>],
     s3 |-> [driver |-> "s3",
             s3 |-> [bucket |-> "default-bucket-name", key |-> "",
                     secret |-> "", region |-> "ap-southeast-1"]],
     sftp_disk |-> [driver |-> "sftp",
                    sftp |-> [host |-> "example.com", username |-> "default_user",
                              password |-> "", port |-> 22]]]

\* the registry loaded from config.json: the disks of src/config.py, an
\* entry whose driver is none of sftp, s3, local (its root is not normalised),
\* and an entry that has no driver at all
LoadedConfig ==
    [local |-> ShippedConfig.local,
     s3 |-> ShippedConfig.s3,
     sftp_disk |-> ShippedConfig.sftp_disk,
     legacy |-> [driver |-> "ftp", root |-> <<"srv", ".", "ftp">>],
     bare |-> [root |-> <<>>]]

\* the threads that may call disk() on the one facade at the same time
Threads == {"t1", "t2"}

\* a thread that has not called disk() yet
IdleThread == [pc |-> "idle", disk |-> None, driver |-> None, made |-> FALSE]

\* arguments of disk(): omitted, empty, registered names, an unregistered name
DiskArgs == {None, "", "local", "s3", "sftp_disk", "legacy", "bare", "nope"}

\* every value active_disk can take once set
DiskNames == DiskArgs \ {None, ""}

----------------------------------------------------------------------------
(* Return values of a call, tagged by their Python type *)

RetNone == [type |-> "NoneType", val |-> None]
RetStr(s) == [type |-> "str", val |-> s]
RetBool(b) == [type |-> "bool", val |-> b]
RetList(l) == [type |-> "list", val |-> l]
RetSelf == [type |-> "StorageComponent", val |-> "self"]
RetAdapter(h) == [type |-> "adapter", val |-> h]

----------------------------------------------------------------------------
(* Helpers *)

\* dict.get(key, default)
DictGet(d, key, dflt) == IF key \in DOMAIN d THEN d[key] ELSE dflt

\* the dictionary d with d[key] = value
DictSet(d, key, value) == [k \in DOMAIN d \cup {key} |-> IF k = key THEN value ELSE d[k]]

\* Path(root).resolve() on the components of a path: "." is dropped and
\* ".." removes the component before it (the root is its own parent)
RECURSIVE Normalize(_, _)
Normalize(done, rest) ==
    IF rest = <<>> THEN done
    ELSE IF Head(rest) = "." THEN Normalize(done, Tail(rest))
    ELSE IF Head(rest) = ".."
         THEN Normalize(IF done = <<>> THEN <<>> ELSE SubSeq(done, 1, Len(done) - 1),
                        Tail(rest))
    ELSE Normalize(Append(done, Head(rest)), Tail(rest))

\* str() of an absolute path given by its components
RECURSIVE PathStr(_)
PathStr(parts) ==
    IF parts = <<>> THEN "/"
    ELSE IF Len(parts) = 1 THEN "/" \o Head(parts)
    ELSE "/" \o Head(parts) \o PathStr(Tail(parts))

\* str(Path(root).resolve())
Resolve(root) == PathStr(Normalize(<<>>, root))

----------------------------------------------------------------------------
(* Adapter handles: what a driver constructor was called with *)

OSFS(root_path) == [fs |-> "OSFS", root_path |-> root_path]

S3FS(bucket, key, secret, region) ==
    [fs |-> "S3FS", bucket_name |-> bucket, aws_access_key_id |-> key,
     aws_secret_access_key |-> secret, region |-> region]

SFTPFS(host) == [fs |-> "SFTPFS", host |-> host]

----------------------------------------------------------------------------
(* The facade.  self is the record of the object's fields; an operation on *)
(* it yields the new self and what the adapter construction did: "hit"     *)
(* (cached, nothing attempted), "nokey" (name not in the registry),        *)
(* "nodriver" (entry without a driver), "failed" (a _create_*_driver ran   *)
(* and stored nothing), "built" (it ran and stored the adapter).  up tells *)
(* whether the driver constructor succeeds (root directory present, host   *)
(* reachable).                                                             *)

\* _create_sftp_driver that remembers a failed construction in the cache
CreateSftpDriverCachesFailure(self, up) ==
    LET sftp_config == DictGet(self.disk_config, "sftp", <<>>)
        host == DictGet(sftp_config, "host", None)
        username == DictGet(sftp_config, "username", None)
        password == DictGet(sftp_config, "password", None)
        port == DictGet(sftp_config, "port", 22)
        url == "sftp://" \o username \o ":" \o password \o "@"
                   \o host \o ":" \o ToString(port)
    IN  IF up
        THEN [self |-> [self EXCEPT !.filesystem =
                            DictSet(self.filesystem, self.active_disk, SFTPFS(url))],
              build |-> "built"]
        ELSE [self |-> [self EXCEPT !.filesystem =
                            DictSet(self.filesystem, self.active_disk, SFTPFS(None))],
              build |-> "failed"]

\* _create_sftp_driver
CreateSftpDriver(self, up) ==
    LET sftp_config == DictGet(self.disk_config, "sftp", <<>>)
        host == DictGet(sftp_config, "host", None)
        username == DictGet(sftp_config, "username", None)
        password == DictGet(sftp_config, "password", None)
        port == DictGet(sftp_config, "port", 22)
        url == "sftp://" \o username \o ":" \o password \o "@"
                   \o host \o ":" \o ToString(port)
    IN  IF up
        THEN [self |-> [self EXCEPT !.filesystem =
                            DictSet(self.filesystem, self.active_disk, SFTPFS(url))],
              build |-> "built"]
        ELSE [self |-> self, build |-> "failed"]

\* _create_s3_driver; S3FS() opens no connection, so it does not depend on up
CreateS3Driver(self, up) ==
    IF "s3" \notin DOMAIN self.disk_config
    THEN [self |-> self, build |-> "failed"]
    ELSE LET s3_config == self.disk_config["s3"]
             bucket == DictGet(s3_config, "bucket", None)
             aws_access_key_id == DictGet(s3_config, "key", None)
             aws_secret_access_key == DictGet(s3_config, "secret", None)
             region == DictGet(s3_config, "region", None)
         IN  [self |-> [self EXCEPT !.filesystem =
                            DictSet(self.filesystem, self.active_disk,
                                    S3FS(bucket, aws_access_key_id,
                                         aws_secret_access_key, region))],
              build |-> "built"]

\* _create_local_driver
CreateLocalDriver(self, up) ==
    LET root == Resolve(DictGet(self.disk_config, "root", <<>>))
    IN  IF up
        THEN [self |-> [self EXCEPT !.filesystem =
                            DictSet(self.filesystem, self.active_disk, OSFS(root))],
              build |-> "built"]
        ELSE [self |-> self, build |-> "failed"]

\* disk() that looks up the registry entry of the default disk (line 39)
DiskReadsDefaultEntry(self, disk, up) ==
    LET active == IF disk \in {None, ""} THEN default_disk ELSE disk
        s1 == [self EXCEPT !.active_disk = active]
    IN  IF active \in DOMAIN s1.filesystem
        THEN [self |-> s1, build |-> "hit"]
        ELSE IF active \notin DOMAIN s1.config
        THEN [self |-> s1, build |-> "nokey"]
        ELSE LET s2 == [s1 EXCEPT !.disk_config = s1.config[default_disk]]
             IN  IF "driver" \notin DOMAIN s2.disk_config
                 THEN [self |-> s2, build |-> "nodriver"]
                 ELSE LET driver == s2.disk_config["driver"]
                      IN  IF driver = "sftp" THEN CreateSftpDriver(s2, up)
                          ELSE IF driver = "s3" THEN CreateS3Driver(s2, up)
                          ELSE CreateLocalDriver(s2, up)

\* disk() that treats the empty name as a name of its own
DiskKeepsEmptyName(self, disk, up) ==
    LET active == IF disk = None THEN default_disk ELSE disk
        s1 == [self EXCEPT !.active_disk = active]
    IN  IF active \in DOMAIN s1.filesystem
        THEN [self |-> s1, build |-> "hit"]
        ELSE IF active \notin DOMAIN s1.config
        THEN [self |-> s1, build |-> "nokey"]
        ELSE LET s2 == [s1 EXCEPT !.disk_config = s1.config[active]]
             IN  IF "driver" \notin DOMAIN s2.disk_config
                 THEN [self |-> s2, build |-> "nodriver"]
                 ELSE LET driver == s2.disk_config["driver"]
                      IN  IF driver = "sftp" THEN CreateSftpDriver(s2, up)
                          ELSE IF driver = "s3" THEN CreateS3Driver(s2, up)
                          ELSE CreateLocalDriver(s2, up)

\* disk() without the early return on a cached adapter (lines 35-36)
DiskRebuilds(self, disk, up) ==
    LET active == IF disk \in {None, ""} THEN default_disk ELSE disk
        s1 == [self EXCEPT !.active_disk = active]
    IN  IF active \notin DOMAIN s1.config
        THEN [self |-> s1, build |-> IF active \in DOMAIN s1.filesystem
                                     THEN "hit" ELSE "nokey"]
        ELSE LET s2 == [s1 EXCEPT !.disk_config = s1.config[active]]
             IN  IF "driver" \notin DOMAIN s2.disk_config
                 THEN [self |-> s2, build |-> "nodriver"]
                 ELSE LET driver == s2.disk_config["driver"]
                      IN  IF driver = "sftp" THEN CreateSftpDriver(s2, up)
                          ELSE IF driver = "s3" THEN CreateS3Driver(s2, up)
                          ELSE CreateLocalDriver(s2, up)

\* disk() that selects the default disk for a name the registry does not have
DiskSelectsRegisteredOnly(self, disk, up) ==
    LET active == IF disk \in {None, ""} \/ disk \notin DOMAIN self.config
                  THEN default_disk ELSE disk
        s1 == [self EXCEPT !.active_disk = active]
    IN  IF active \in DOMAIN s1.filesystem
        THEN [self |-> s1, build |-> "hit"]
        ELSE IF active \notin DOMAIN s1.config
        THEN [self |-> s1, build |-> "nokey"]
        ELSE LET s2 == [s1 EXCEPT !.disk_config = s1.config[active]]
             IN  IF "driver" \notin DOMAIN s2.disk_config
                 THEN [self |-> s2, build |-> "nodriver"]
                 ELSE LET driver == s2.disk_config["driver"]
                      IN  IF driver = "sftp" THEN CreateSftpDriver(s2, up)
                          ELSE IF driver = "s3" THEN CreateS3Driver(s2, up)
                          ELSE CreateLocalDriver(s2, up)

\* disk() that reads the registry entry before it looks into the cache
DiskReadsConfigFirst(self, disk, up) ==
    LET active == IF disk \in {None, ""} THEN default_disk ELSE disk
        s1 == [self EXCEPT !.active_disk = active]
    IN  IF active \in DOMAIN s1.filesystem
        THEN [self |-> [s1 EXCEPT !.disk_config = s1.config[active]], build |-> "hit"]
        ELSE IF active \notin DOMAIN s1.config
        THEN [self |-> s1, build |-> "nokey"]
        ELSE LET s2 == [s1 EXCEPT !.disk_config = s1.config[active]]
             IN  IF "driver" \notin DOMAIN s2.disk_config
                 THEN [self |-> s2, build |-> "nodriver"]
                 ELSE LET driver == s2.disk_config["driver"]
                      IN  IF driver = "sftp" THEN CreateSftpDriver(s2, up)
                          ELSE IF driver = "s3" THEN CreateS3Driver(s2, up)
                          ELSE CreateLocalDriver(s2, up)

\* disk(disk)
Disk(self, disk, up) ==
    LET active == IF disk \in {None, ""} THEN default_disk ELSE disk
        s1 == [self EXCEPT !.active_disk = active]
    IN  IF active \in DOMAIN s1.filesystem
        THEN [self |-> s1, build |-> "hit"]
        ELSE IF active \notin DOMAIN s1.config
        THEN [self |-> s1, build |-> "nokey"]
        ELSE LET s2 == [s1 EXCEPT !.disk_config = s1.config[active]]
             IN  IF "driver" \notin DOMAIN s2.disk_config
                 THEN [self |-> s2, build |-> "nodriver"]
                 ELSE LET driver == s2.disk_config["driver"]
                      IN  IF driver = "sftp" THEN CreateSftpDriver(s2, up)
                          ELSE IF driver = "s3" THEN CreateS3Driver(s2, up)
                          ELSE CreateLocalDriver(s2, up)

\* get_adapter() that selects the disk 's3' when none is active
GetAdapterSelectsS3(self, up) ==
    IF self.active_disk \in DOMAIN self.filesystem
    THEN [self |-> self, build |-> "hit",
          adapter |-> RetAdapter(self.filesystem[self.active_disk])]
    ELSE LET d == Disk(self, IF self.active_disk = None THEN "s3"
                             ELSE self.active_disk, up)
         IN  [self |-> d.self, build |-> d.build,
              adapter |-> IF d.self.active_disk \in DOMAIN d.self.filesystem
                          THEN RetAdapter(d.self.filesystem[d.self.active_disk])
                          ELSE RetNone]

\* get_adapter(); adapter is the handle returned, or None
GetAdapter(self, up) ==
    IF self.active_disk \in DOMAIN self.filesystem
    THEN [self |-> self, build |-> "hit",
          adapter |-> RetAdapter(self.filesystem[self.active_disk])]
    ELSE LET d == Disk(self, self.active_disk, up)
         IN  [self |-> d.self, build |-> d.build,
              adapter |-> IF d.self.active_disk \in DOMAIN d.self.filesystem
                          THEN RetAdapter(d.self.filesystem[d.self.active_disk])
                          ELSE RetNone]

----------------------------------------------------------------------------
(* Backends.  files is the content of one backend: path -> content or      *)
(* Absent.  ok tells whether the backend call gets through (no network,    *)
(* authentication or permission failure).                                  *)

\* the names listdir finds under a directory that exists
Present(files) == {p \in Paths : files[p] # Absent}

\* the orders in which listdir may report a set of names
Orderings(names) ==
    {l \in [1..Cardinality(names) -> names] : \A i, j \in DOMAIN l : l[i] = l[j] => i = j}

\* every backend an adapter can be constructed on
Targets ==
    {Disk([config |-> LoadedConfig, filesystem |-> <<>>, active_disk |-> None,
           disk_config |-> None], name, TRUE).self.filesystem[name] :
     name \in {n \in DOMAIN LoadedConfig :
                 Disk([config |-> LoadedConfig, filesystem |-> <<>>, active_disk |-> None,
                       disk_config |-> None], n, TRUE).build = "built"}}

----------------------------------------------------------------------------
(* File operations.  Each yields the new self, the new store, the value    *)
(* returned to the caller (ret), whether an exception reached the caller   *)
(* (raised), what logging.error recorded (log: "none", "not_found",        *)
(* "error"), the exception the message carries (exc) and what was printed  *)
(* (out).                                                                  *)

Outcome(g, st, ret, log, out) ==
    [self |-> g.self, build |-> g.build, store |-> st, ret |-> ret,
     raised |-> FALSE, log |-> log, out |-> out, exc |-> None]

\* the outcome of a call whose except branch caught exc and logged it
Caught(g, st, ret, log, exc) ==
    [self |-> g.self, build |-> g.build, store |-> st, ret |-> ret,
     raised |-> FALSE, log |-> log, out |-> None, exc |-> exc]

\* what calling a method on get_adapter() raises when the call cannot be served:
\* None has no such method, or the backend fails
Unserved(g) == IF g.adapter.type = "NoneType" THEN "AttributeError" ELSE "BackendError"

\* write() that creates a file but leaves an existing one as it is
WriteKeepsExisting(self, st, path, content, up, ok) ==
    LET g == GetAdapter(self, up)
    IN  IF g.adapter.type = "NoneType" \/ ~ok
        THEN Caught(g, st, RetNone, "error", Unserved(g))
        ELSE IF st[g.adapter.val][path] # Absent
        THEN Outcome(g, st, RetNone, "none", "stored")
        ELSE Outcome(g, [st EXCEPT ![g.adapter.val][path] = content],
                     RetNone, "none", "stored")

\* write(path, content)
Write(self, st, path, content, up, ok) ==
    LET g == GetAdapter(self, up)
    IN  IF g.adapter.type = "NoneType" \/ ~ok
        THEN Caught(g, st, RetNone, "error", Unserved(g))
        ELSE Outcome(g, [st EXCEPT ![g.adapter.val][path] = content],
                     RetNone, "none", "stored")

\* get() that drops the adapter from the cache when the backend call fails
GetEvictsOnFailure(self, st, path, up, ok) ==
    LET g == GetAdapter(self, up)
    IN  IF g.adapter.type = "NoneType"
        THEN Caught(g, st, RetNone, "error", Unserved(g))
        ELSE IF ~ok
        THEN Caught([g EXCEPT !.self.filesystem =
                         [k \in DOMAIN g.self.filesystem \ {g.self.active_disk} |->
                             g.self.filesystem[k]]],
                    st, RetNone, "error", Unserved(g))
        ELSE IF st[g.adapter.val][path] = Absent
        THEN Caught(g, st, RetNone, "not_found", "ResourceNotFound")
        ELSE Outcome(g, st, RetStr(st[g.adapter.val][path]), "none", None)

\* get(path)
Get(self, st, path, up, ok) ==
    LET g == GetAdapter(self, up)
    IN  IF g.adapter.type = "NoneType" \/ ~ok
        THEN Caught(g, st, RetNone, "error", Unserved(g))
        ELSE IF st[g.adapter.val][path] = Absent
        THEN Caught(g, st, RetNone, "not_found", "ResourceNotFound")
        ELSE Outcome(g, st, RetStr(st[g.adapter.val][path]), "none", None)

\* delete() that reports the deletion and leaves the file in place
DeleteKeepsFile(self, st, path, up, ok) ==
    LET g == GetAdapter(self, up)
    IN  IF g.adapter.type = "NoneType" \/ ~ok
        THEN Caught(g, st, RetNone, "error", Unserved(g))
        ELSE IF st[g.adapter.val][path] = Absent
        THEN Caught(g, st, RetNone, "not_found", "ResourceNotFound")
        ELSE Outcome(g, st, RetNone, "none", "deleted")

\* delete(path)
Delete(self, st, path, up, ok) ==
    LET g == GetAdapter(self, up)
    IN  IF g.adapter.type = "NoneType" \/ ~ok
        THEN Caught(g, st, RetNone, "error", Unserved(g))
        ELSE IF st[g.adapter.val][path] = Absent
        THEN Caught(g, st, RetNone, "not_found", "ResourceNotFound")
        ELSE Outcome(g, [st EXCEPT ![g.adapter.val][path] = Absent],
                     RetNone, "none", "deleted")

\* is_exist() whose except branch logs and returns nothing, as get() does
IsExistReturnsNone(self, st, path, up, ok) ==
    LET g == GetAdapter(self, up)
    IN  IF g.adapter.type = "NoneType" \/ ~ok
        THEN Caught(g, st, RetNone, "error", Unserved(g))
        ELSE Outcome(g, st, RetBool(st[g.adapter.val][path] # Absent), "none", None)

\* is_exist(path)
IsExist(self, st, path, up, ok) ==
    LET g == GetAdapter(self, up)
    IN  IF g.adapter.type = "NoneType" \/ ~ok
        THEN Caught(g, st, RetBool(FALSE), "error", Unserved(g))
        ELSE Outcome(g, st, RetBool(st[g.adapter.val][path] # Absent), "none", None)

\* put() that uploads to the default disk's backend whatever disk is active
PutUsesDefaultDisk(self, st, source_path, dest_path, up, ok) ==
    IF source_path # LocalReadable
    THEN Caught([self |-> self, build |-> "none"], st, RetNone, "error", "OSError")
    ELSE LET g == GetAdapter(self, up)
             local == OSFS(Resolve(self.config[default_disk].root))
         IN  IF g.adapter.type = "NoneType" \/ ~ok
             THEN Caught(g, st, RetNone, "error", Unserved(g))
             ELSE Outcome(g, [st EXCEPT ![local][dest_path] = LocalContent],
                          RetNone, "none", "uploaded")

\* put(source_path, dest_path): the source is opened before get_adapter()
\* is called, so an unreadable source leaves the facade untouched
Put(self, st, source_path, dest_path, up, ok) ==
    IF source_path # LocalReadable
    THEN Caught([self |-> self, build |-> "none"], st, RetNone, "error", "OSError")
    ELSE LET g == GetAdapter(self, up)
         IN  IF g.adapter.type = "NoneType" \/ ~ok
             THEN Caught(g, st, RetNone, "error", Unserved(g))
             ELSE Outcome(g, [st EXCEPT ![g.adapter.val][dest_path] = LocalContent],
                          RetNone, "none", "uploaded")

\* listing() whose ResourceNotFound branch logs and returns nothing, as get() does
ListingReturnsNone(self, st, directory, names, up, ok) ==
    LET g == GetAdapter(self, up)
    IN  IF g.adapter.type = "NoneType" \/ ~ok
        THEN Caught(g, st, RetList(<<>>), "error", Unserved(g))
        ELSE IF directory # RootDir
        THEN Caught(g, st, RetNone, "not_found", "ResourceNotFound")
        ELSE Outcome(g, st, RetList(names), "none", None)

\* listing(directory); names is the order listdir reports the entries in
Listing(self, st, directory, names, up, ok) ==
    LET g == GetAdapter(self, up)
    IN  IF g.adapter.type = "NoneType" \/ ~ok
        THEN Caught(g, st, RetList(<<>>), "error", Unserved(g))
        ELSE IF directory # RootDir
        THEN Caught(g, st, RetList(<<>>), "not_found", "ResourceNotFound")
        ELSE Outcome(g, st, RetList(names), "none", None)

\* move() that does not hand overwrite on to the adapter (its default is False)
MoveDropsOverwrite(self, st, src_path, dst_path, overwrite, up, ok) ==
    LET g == GetAdapter(self, up)
    IN  IF g.adapter.type = "NoneType" \/ ~ok
        THEN Caught(g, st, RetNone, "error", Unserved(g))
        ELSE LET files == st[g.adapter.val]
             IN  IF files[dst_path] # Absent
                 THEN Caught(g, st, RetNone, "error", "DestinationExists")
                 ELSE IF files[src_path] = Absent
                 THEN Caught(g, st, RetNone, "error", "ResourceNotFound")
                 ELSE Outcome(g, [st EXCEPT ![g.adapter.val] =
                                     [files EXCEPT ![dst_path] = files[src_path],
                                                   ![src_path] = Absent]],
                              RetNone, "none", None)

\* move(src_path, dst_path, overwrite), for two different paths
Move(self, st, src_path, dst_path, overwrite, up, ok) ==
    LET g == GetAdapter(self, up)
    IN  IF g.adapter.type = "NoneType" \/ ~ok
        THEN Caught(g, st, RetNone, "error", Unserved(g))
        ELSE LET files == st[g.adapter.val]
             IN  IF ~overwrite /\ files[dst_path] # Absent
                 THEN Caught(g, st, RetNone, "error", "DestinationExists")
                 ELSE IF files[src_path] = Absent
                 THEN Caught(g, st, RetNone, "error", "ResourceNotFound")
                 ELSE Outcome(g, [st EXCEPT ![g.adapter.val] =
                                     [files EXCEPT ![dst_path] = files[src_path],
                                                   ![src_path] = Absent]],
                              RetNone, "none", None)

----------------------------------------------------------------------------
(* The state machine: one action per public method of the facade *)

Self ==
    [config |-> config, filesystem |-> filesystem, active_disk |-> active_disk,
     disk_config |-> disk_config]

\* the names listdir reports for the active disk's backend after get_adapter()
ListedNames(up) ==
    LET g == GetAdapter(Self, up)
    IN  IF g.adapter.type = "NoneType" THEN {<<>>}
        ELSE Orderings(Present(store[g.adapter.val]))

\* the exception disk() logs for a build outcome: the registry lookups raise
\* KeyError, a driver constructor raises its own error
BuildError(build) ==
    IF build \in {"nokey", "nodriver"} THEN "KeyError"
    ELSE IF build = "failed" THEN "CreateFailed"
    ELSE None

\* __init__, with the backends empty
Init ==
    /\ config = LoadedConfig
    /\ filesystem = <<>>
    /\ active_disk = None
    /\ disk_config = None
    /\ store = [t \in Targets |-> [p \in Paths |-> Absent]]
    /\ constructions = [d \in DiskNames |-> 0]
    /\ calls = 0
    /\ last = [op |-> "__init__", args |-> <<>>, ret |-> RetNone, raised |-> FALSE,
               log |-> "none", out |-> None, build |-> "none", exc |-> None]
    /\ thr = [t \in Threads |-> IdleThread]

\* the effect of the call op(args) that returns with outcome r
Effect(op, args, r) ==
    /\ calls' = calls + 1
    /\ constructions' =
           IF r.build \in {"failed", "built"}
           THEN [constructions EXCEPT ![r.self.active_disk] = @ + 1]
           ELSE constructions
    /\ config' = r.self.config
    /\ filesystem' = r.self.filesystem
    /\ active_disk' = r.self.active_disk
    /\ disk_config' = r.self.disk_config
    /\ store' = r.store
    /\ last' = [op |-> op, args |-> args, ret |-> r.ret, raised |-> r.raised,
                log |-> r.log, out |-> r.out, build |-> r.build, exc |-> r.exc]
    /\ thr' = thr

\* the call op(args) returns with outcome r
Return(op, args, r) ==
    /\ calls < MaxCalls
    /\ Effect(op, args, r)

selectDisk ==
    \E disk \in DiskArgs, up \in BOOLEAN :
        LET d == Disk(Self, disk, up)
        IN  Return("disk", <<disk>>,
                   [self |-> d.self, build |-> d.build, store |-> store, ret |-> RetSelf,
                    raised |-> FALSE, log |-> IF d.build \in {"hit", "built"}
                                              THEN "none" ELSE "error",
                    out |-> None, exc |-> BuildError(d.build)])

getAdapter ==
    \E up \in BOOLEAN :
        LET g == GetAdapter(Self, up)
        IN  Return("get_adapter", <<>>,
                   [self |-> g.self, build |-> g.build, store |-> store, ret |-> g.adapter,
                    raised |-> FALSE, log |-> IF g.build \in {"hit", "built"}
                                              THEN "none" ELSE "error",
                    out |-> None, exc |-> BuildError(g.build)])

write ==
    \E path \in Paths, content \in Contents, up, ok \in BOOLEAN :
        Return("write", <<path, content>>, Write(Self, store, path, content, up, ok))

read ==
    \E path \in Paths, up, ok \in BOOLEAN :
        Return("get", <<path>>, Get(Self, store, path, up, ok))

delete ==
    \E path \in Paths, up, ok \in BOOLEAN :
        Return("delete", <<path>>, Delete(Self, store, path, up, ok))

exists ==
    \E path \in Paths, up, ok \in BOOLEAN :
        Return("is_exist", <<path>>, IsExist(Self, store, path, up, ok))

uploadLocalFile ==
    \E source_path \in LocalSources, dest_path \in Paths, up, ok \in BOOLEAN :
        Return("put", <<source_path, dest_path>>,
               Put(Self, store, source_path, dest_path, up, ok))

list ==
    \E directory \in Dirs, up, ok \in BOOLEAN :
        \E names \in ListedNames(up) :
            Return("listing", <<directory>>,
                   Listing(Self, store, directory, names, up, ok))

move ==
    \E src_path \in Paths, dst_path \in Paths, overwrite, up, ok \in BOOLEAN :
        /\ src_path # dst_path
        /\ Return("move", <<src_path, dst_path, overwrite>>,
                  Move(Self, store, src_path, dst_path, overwrite, up, ok))

Next ==
    \/ selectDisk
    \/ getAdapter
    \/ write
    \/ read
    \/ delete
    \/ exists
    \/ uploadLocalFile
    \/ list
    \/ move

Spec == Init /\ [][Next]_vars

----------------------------------------------------------------------------
(* Retrying a remote-transfer disk.  The disks whose driver is sftp connect *)
(* when the adapter is constructed.  Reconnect is a disk() call on such a   *)
(* disk that is not cached, made while its host is reachable; RetrySpec     *)
(* assumes that such a call is eventually made, whatever else is called in  *)
(* between.                                                                 *)

SftpDisks ==
    {d \in DOMAIN LoadedConfig :
        "driver" \in DOMAIN LoadedConfig[d] /\ LoadedConfig[d].driver = "sftp"}

Reconnect ==
    \E d \in SftpDisks :
        /\ d \notin DOMAIN filesystem
        /\ LET r == Disk(Self, d, TRUE)
           IN  Effect("disk", <<d>>,
                      [self |-> r.self, build |-> r.build, store |-> store,
                       ret |-> RetSelf, raised |-> FALSE,
                       log |-> IF r.build \in {"hit", "built"} THEN "none" ELSE "error",
                       out |-> None, exc |-> BuildError(r.build)])

RetryNext == selectDisk \/ getAdapter \/ Reconnect

RetrySpec == Init /\ [][RetryNext]_vars /\ WF_vars(Reconnect)

----------------------------------------------------------------------------
(* Threads calling disk() on one facade.  The code takes no lock, so the   *)
(* statements of disk() of different threads interleave; every statement   *)
(* reads and writes the shared fields of the facade at the time it runs.   *)
(* A thread makes one call; pc names the line it is about to execute.      *)

\* a thread calls disk(disk)
ThreadCall(t) ==
    /\ thr[t].pc = "idle"
    /\ \E disk \in DiskArgs :
           thr' = [thr EXCEPT ![t] = [@ EXCEPT !.pc = "l33", !.disk = disk]]
    /\ UNCHANGED <<config, filesystem, active_disk, disk_config, store,
                   constructions, calls, last>>

\* line 33: self.active_disk = disk or self.default_disk
ThreadSetActive(t) ==
    /\ thr[t].pc = "l33"
    /\ active_disk' = IF thr[t].disk \in {None, ""} THEN default_disk ELSE thr[t].disk
    /\ thr' = [thr EXCEPT ![t].pc = "l35"]
    /\ UNCHANGED <<config, filesystem, disk_config, store, constructions, calls, last>>

\* lines 35-36: if self.active_disk in self.filesystem: return self
ThreadCheckCache(t) ==
    /\ thr[t].pc = "l35"
    /\ thr' = [thr EXCEPT ![t].pc = IF active_disk \in DOMAIN filesystem
                                    THEN "done" ELSE "l39"]
    /\ UNCHANGED <<config, filesystem, active_disk, disk_config, store,
                   constructions, calls, last>>

\* line 39: self.disk_config = self.config['disks'][self.active_disk]
ThreadReadConfig(t) ==
    /\ thr[t].pc = "l39"
    /\ IF active_disk \in DOMAIN config
       THEN /\ disk_config' = config[active_disk]
            /\ thr' = [thr EXCEPT ![t].pc = "l40"]
       ELSE /\ disk_config' = disk_config
            /\ thr' = [thr EXCEPT ![t].pc = "done"]
    /\ UNCHANGED <<config, filesystem, active_disk, store, constructions, calls, last>>

\* line 40: driver = self.disk_config['driver']
ThreadReadDriver(t) ==
    /\ thr[t].pc = "l40"
    /\ thr' = IF "driver" \in DOMAIN disk_config
              THEN [thr EXCEPT ![t] = [@ EXCEPT !.pc = "l41",
                                                !.driver = disk_config["driver"]]]
              ELSE [thr EXCEPT ![t].pc = "done"]
    /\ UNCHANGED <<config, filesystem, active_disk, disk_config, store,
                   constructions, calls, last>>

\* lines 41-46: the _create_*_driver chosen by the local driver runs on the
\* facade's fields as they are now
ThreadCreate(t) ==
    /\ thr[t].pc = "l41"
    /\ \E up \in BOOLEAN :
           LET r == IF thr[t].driver = "sftp" THEN CreateSftpDriver(Self, up)
                    ELSE IF thr[t].driver = "s3" THEN CreateS3Driver(Self, up)
                    ELSE CreateLocalDriver(Self, up)
           IN  /\ filesystem' = r.self.filesystem
               /\ constructions' = [constructions EXCEPT ![active_disk] = @ + 1]
               /\ thr' = [thr EXCEPT ![t] = [@ EXCEPT !.pc = "done",
                                                      !.made = (r.build = "built")]]
    /\ UNCHANGED <<config, active_disk, disk_config, store, calls, last>>

ConcurrentNext ==
    \E t \in Threads :
        \/ ThreadCall(t)
        \/ ThreadSetActive(t)
        \/ ThreadCheckCache(t)
        \/ ThreadReadConfig(t)
        \/ ThreadReadDriver(t)
        \/ ThreadCreate(t)

ConcurrentSpec == Init /\ [][ConcurrentNext]_vars

----------------------------------------------------------------------------
(* Vocabulary of the properties *)

\* the backend the active disk's adapter works on
ActiveFiles == store[filesystem[active_disk]]

----------------------------------------------------------------------------
(* C1: once a disk name is a key of the adapter cache, no later call       *)
(* (selectDisk, getAdapter or a file operation) runs a driver construction *)
(* for that name again.                                                    *)
C1_ConstructedOnce ==
    [][\A d \in DOMAIN filesystem :
          /\ constructions'[d] = constructions[d]
          /\ d \in DOMAIN filesystem'
          /\ active_disk' = d => last'.build \in {"hit", "none"}]_vars

\* a cached disk was selected again and served from the cache
C1_Witness ==
    /\ calls >= 2
    /\ active_disk \in DOMAIN filesystem
    /\ last.op = "disk"
    /\ last.build = "hit"
    /\ constructions[active_disk] = 1

----------------------------------------------------------------------------
(* C2: for a disk name that is not a key of the registry, selectDisk does  *)
(* not raise, makes the name the active disk and caches nothing, and every *)
(* later read, write, delete or move on it hands the caller a failure      *)
(* outcome (an exception or an AdapterUnavailable / BackendError result).  *)
C2_UnregisteredReportsFailure ==
    active_disk \in DiskNames \ DOMAIN config =>
        /\ active_disk \notin DOMAIN filesystem
        /\ last.op = "disk" => ~last.raised /\ last.args[1] = active_disk
        /\ last.op \in {"get", "write", "delete", "move"} =>
               \/ last.raised
               \/ last.ret.val \in {"AdapterUnavailable", "BackendError"}

----------------------------------------------------------------------------
(* C3, as amended: when a _create_*_driver run fails, the adapter cache is *)
(* left as it was; and whenever a disk's construction has failed and the   *)
(* disk is not cached, the next call on that disk that reaches the adapter *)
(* lookup (selectDisk, getAdapter, or a file operation other than an       *)
(* upload whose local source cannot be opened) runs the factory again.     *)
C3_RetriedOnAccess ==
    [][/\ last'.build = "failed" => filesystem' = filesystem
       /\ \A d \in DiskNames :
             (/\ constructions[d] > 0
              /\ d \notin DOMAIN filesystem
              /\ calls' = calls + 1
              /\ active_disk' = d
              /\ last'.build # "none")
             => /\ last'.build \in {"failed", "built"}
                /\ constructions'[d] = constructions[d] + 1]_vars

\* two accesses in a row ran the factory for the same disk and both failed
C3_Witness ==
    /\ active_disk \in DiskNames
    /\ active_disk \notin DOMAIN filesystem
    /\ constructions[active_disk] >= 2
    /\ last.build = "failed"

(* C3 as stated: ... the next selectDisk, getAdapter or file operation on  *)
(* that disk runs the factory again.                                       *)
C3_Original ==
    [][\A d \in DiskNames :
          (/\ constructions[d] > 0
           /\ d \notin DOMAIN filesystem
           /\ calls' = calls + 1
           /\ active_disk' = d)
          => /\ last'.build \in {"failed", "built"}
             /\ constructions'[d] = constructions[d] + 1]_vars

----------------------------------------------------------------------------
\* the adapter h is the one the code builds from the registry entry: SFTPFS
\* on the entry's url for driver sftp, S3FS on the entry's bucket for driver
\* s3, and OSFS on the entry's resolved root for every other driver
BuiltFrom(h, entry) ==
    /\ "driver" \in DOMAIN entry
    /\ IF entry.driver = "sftp"
       THEN /\ h.fs = "SFTPFS"
            /\ h.host = "sftp://" \o entry.sftp.username \o ":" \o entry.sftp.password
                            \o "@" \o entry.sftp.host \o ":" \o ToString(entry.sftp.port)
       ELSE IF entry.driver = "s3"
       THEN /\ h.fs = "S3FS"
            /\ h.bucket_name = entry.s3.bucket
            /\ h.aws_access_key_id = entry.s3.key
            /\ h.aws_secret_access_key = entry.s3.secret
            /\ h.region = entry.s3.region
       ELSE /\ h.fs = "OSFS"
            /\ h.root_path = Resolve(DictGet(entry, "root", <<>>))

(* C4: every key of the adapter cache is a key of the registry, and the    *)
(* adapter stored under it was built from that entry's configuration, not  *)
(* from the configuration of a disk selected before.                       *)
C4_CacheBuiltFromRegistry ==
    \A k \in DOMAIN filesystem :
        /\ k \in DOMAIN config
        /\ BuiltFrom(filesystem[k], config[k])

\* two disks of different kinds are cached, the second built after the first
C4_Witness ==
    /\ {"local", "s3"} \subseteq DOMAIN filesystem
    /\ active_disk = "s3"
    /\ last.build = "built"

----------------------------------------------------------------------------
(* C5 as stated: in every reachable state active_disk is a key of the      *)
(* registry or equals default_disk.                                        *)
C5_Original == active_disk \in DOMAIN config \/ active_disk = default_disk

(* C5, as amended: active_disk is unset (None) only while no call has      *)
(* reached disk(); afterwards it is default_disk or the non-empty name     *)
(* given to the latest selectDisk, whether or not the registry has it.     *)
C5_ActiveDisk ==
    /\ active_disk \in DiskNames \cup {None}
    /\ active_disk = None => DOMAIN filesystem = {} /\ last.build = "none"
    /\ last.build # "none" => active_disk # None
    /\ last.op = "disk" =>
           active_disk = IF last.args[1] \in {None, ""} THEN default_disk
                         ELSE last.args[1]

\* a name the registry does not have is the active disk
C5_Witness ==
    /\ last.op = "disk"
    /\ active_disk \notin DOMAIN config
    /\ active_disk # default_disk

----------------------------------------------------------------------------
(* C6: for a registry entry whose driver is none of local, s3, sftp the    *)
(* build fails: no adapter is cached for that disk and operations on it    *)
(* find no adapter.                                                        *)
C6_UnsupportedDriverFails ==
    \A d \in DOMAIN config :
        ("driver" \in DOMAIN config[d] /\ config[d].driver \notin {"local", "s3", "sftp"})
        => /\ d \notin DOMAIN filesystem
           /\ (active_disk = d /\ last.op = "get_adapter") => last.ret.type = "NoneType"

----------------------------------------------------------------------------
(* C7: is_exist never raises and always returns a boolean; when the active *)
(* disk has no adapter (not in the registry, or construction failed) or    *)
(* the backend call fails, the boolean is false.                           *)
C7_ExistsNeverRaises ==
    last.op = "is_exist" =>
        /\ ~last.raised
        /\ last.ret.type = "bool"
        /\ last.ret.val \in BOOLEAN
        /\ (last.log # "none" \/ active_disk \notin DOMAIN filesystem) =>
               last.ret.val = FALSE

\* is_exist was called on a cached disk holding the path, the backend call
\* failed, and false came back
C7_Witness ==
    /\ last.op = "is_exist"
    /\ last.log = "error"
    /\ active_disk \in DOMAIN filesystem
    /\ ActiveFiles[last.args[1]] # Absent
    /\ last.ret = RetBool(FALSE)

----------------------------------------------------------------------------
(* C8: listing never raises and always returns a sequence; for an empty    *)
(* directory, a directory that does not exist, any other backend failure,  *)
(* or an active disk without adapter, the sequence is empty.               *)
C8_ListNeverFails ==
    last.op = "listing" =>
        /\ ~last.raised
        /\ last.ret.type = "list"
        /\ (\/ last.log # "none"
            \/ last.args[1] = MissingDir
            \/ active_disk \notin DOMAIN filesystem
            \/ Present(ActiveFiles) = {}) => last.ret.val = <<>>

\* a directory that does not exist was listed on a cached disk that holds files
C8_Witness ==
    /\ last.op = "listing"
    /\ last.args[1] = MissingDir
    /\ last.log = "not_found"
    /\ active_disk \in DOMAIN filesystem
    /\ Present(ActiveFiles) # {}
    /\ last.ret = RetList(<<>>)

----------------------------------------------------------------------------
(* C9: a successful write(path, X) followed immediately by get(path) on    *)
(* the same disk returns exactly X, whenever the backend call of the get   *)
(* goes through (it then finds the path, too).                             *)
C9_WriteReadRoundTrip ==
    [][(/\ last.op = "write"
        /\ last.log = "none"
        /\ calls' = calls + 1
        /\ last'.op = "get"
        /\ last'.args[1] = last.args[1]
        /\ active_disk' = active_disk
        /\ last'.log # "error")
       => last'.ret = RetStr(last.args[2])]_vars

\* a path was read back on the object-storage disk after it was overwritten
C9_Witness ==
    /\ calls >= 3
    /\ last.op = "get"
    /\ last.ret = RetStr("y")
    /\ active_disk \in DOMAIN filesystem
    /\ filesystem[active_disk].fs = "S3FS"

----------------------------------------------------------------------------
(* C10: on a disk with an adapter, is_exist(path) right after a successful *)
(* write(path, X) returns true, and right after a successful delete(path)  *)
(* returns false (the is_exist call itself getting through to the backend).*)
C10_ExistsAfterWriteAndDelete ==
    [][(/\ last.op \in {"write", "delete"}
        /\ last.log = "none"
        /\ calls' = calls + 1
        /\ last'.op = "is_exist"
        /\ last'.args[1] = last.args[1]
        /\ active_disk' = active_disk
        /\ last'.log = "none")
       => last'.ret = RetBool(last.op = "write")]_vars

\* is_exist found a path that an earlier call had stored on the active disk
C10_Witness ==
    /\ calls >= 2
    /\ last.op = "is_exist"
    /\ last.log = "none"
    /\ last.ret = RetBool(TRUE)
    /\ ActiveFiles[last.args[1]] # Absent

----------------------------------------------------------------------------
(* C11: get and delete of a path that is absent on a disk with an adapter  *)
(* report NotFound through the result: what the caller receives differs    *)
(* from what a successful delete and what a backend failure hand back      *)
(* (both return None without raising).                                     *)
C11_NotFoundReported ==
    (last.op \in {"get", "delete"} /\ last.exc = "ResourceNotFound") =>
        \/ last.raised
        \/ last.ret # RetNone

----------------------------------------------------------------------------
----------------------------------------------------------------------------
(* C13: put whose local source cannot be read hands the caller a           *)
(* LocalReadError, and put whose backend write fails hands the caller a    *)
(* BackendError (by raising or through the result).                        *)
C13_UploadErrorsReported ==
    last.op = "put" =>
        /\ last.args[1] = LocalUnreadable =>
               (last.raised \/ last.ret.val = "LocalReadError")
        /\ last.exc = "BackendError" =>
               (last.raised \/ last.ret.val = "BackendError")

----------------------------------------------------------------------------
\* the disk name a thread asked for
Asked(t) == IF thr[t].disk \in {None, ""} THEN default_disk ELSE thr[t].disk

(* C14: with several callers on one facade, two concurrent disk() calls    *)
(* for the same uncached disk never both construct an adapter, and an      *)
(* adapter is never stored under a name other than the one it was built    *)
(* for.                                                                    *)
C14_ConstructionSerialized ==
    /\ \A t1, t2 \in Threads :
           (t1 # t2 /\ thr[t1].made /\ thr[t2].made) => Asked(t1) # Asked(t2)
    /\ \A k \in DOMAIN filesystem :
           k \in DOMAIN config /\ BuiltFrom(filesystem[k], config[k])

----------------------------------------------------------------------------
(* C15: disk() called with the name omitted or empty makes default_disk    *)
(* the active disk, called with a non-empty name makes exactly that name   *)
(* the active disk, and in both cases returns the facade itself.           *)
C15_SelectDiskSetsActive ==
    last.op = "disk" =>
        /\ last.args[1] \in {None, ""} => active_disk = default_disk
        /\ last.args[1] \notin {None, ""} => active_disk = last.args[1]
        /\ last.ret = RetSelf
        /\ ~last.raised

\* disk('') was called while another disk was active
C15_Witness ==
    /\ calls >= 2
    /\ last.op = "disk"
    /\ last.args[1] = ""
    /\ active_disk = default_disk

----------------------------------------------------------------------------
(* C16: disk(name) for a name whose adapter is cached changes nothing but  *)
(* the active disk: the cache, disk_config, the backends and the count of  *)
(* constructions stay as they are; a second such call in a row changes     *)
(* nothing at all.                                                         *)
C16_SelectCachedIsNoOp ==
    [][(/\ calls' = calls + 1
        /\ last'.op = "disk"
        /\ active_disk' \in DOMAIN filesystem)
       => /\ filesystem' = filesystem
          /\ constructions' = constructions
          /\ store' = store
          /\ last'.build = "hit"
          /\ disk_config' = disk_config
          /\ (last.op = "disk" /\ last.build = "hit" /\ last.args = last'.args) =>
                 (active_disk' = active_disk /\ last' = last)]_vars

\* a cached disk was selected again after another disk's entry had been read
C16_Witness ==
    /\ last.op = "disk"
    /\ last.build = "hit"
    /\ active_disk \in DOMAIN config
    /\ disk_config # config[active_disk]

----------------------------------------------------------------------------
(* C17: once a name is in the adapter cache, no call removes the entry or  *)
(* replaces its handle (file operations that fail on the backend           *)
(* included), get_adapter() on that disk returns that handle, and a file   *)
(* operation on that disk touches no backend but the handle's.             *)
C17_ReadyIsAbsorbing ==
    [][\A d \in DOMAIN filesystem :
          /\ d \in DOMAIN filesystem'
          /\ filesystem'[d] = filesystem[d]
          /\ (calls' = calls + 1 /\ active_disk' = d) =>
                 /\ last'.op = "get_adapter" => last'.ret = RetAdapter(filesystem[d])
                 /\ \A u \in Targets \ {filesystem[d]} : store'[u] = store[u]]_vars

\* a file operation failed on the backend of a cached disk, which stays cached
C17_Witness ==
    /\ active_disk \in DOMAIN filesystem
    /\ last.op = "get"
    /\ last.exc = "BackendError"

----------------------------------------------------------------------------
\* d is cached with the adapter of its registry entry
Ready(d) == d \in DOMAIN filesystem /\ BuiltFrom(filesystem[d], config[d])

\* the construction of d was attempted and has not given a working adapter
FailedSoFar(d) == constructions[d] > 0 /\ ~Ready(d)

\* the call with outcome r constructed and cached the adapter of d
Constructs(d, r) ==
    /\ r.build = "built"
    /\ d \in DOMAIN r.self.filesystem
    /\ BuiltFrom(r.self.filesystem[d], config[d])

\* every file operation called now, with the driver constructor succeeding as
\* up says and local sources drawn from sources, constructs the adapter of d
EveryFileOpConstructs(d, up, sources) ==
    /\ \A path \in Paths, ok \in BOOLEAN :
          /\ \A content \in Contents :
                Constructs(d, Write(Self, store, path, content, up, ok))
          /\ Constructs(d, Get(Self, store, path, up, ok))
          /\ Constructs(d, Delete(Self, store, path, up, ok))
          /\ Constructs(d, IsExist(Self, store, path, up, ok))
          /\ \A source_path \in sources :
                Constructs(d, Put(Self, store, source_path, path, up, ok))
          /\ \A dst_path \in Paths \ {path}, overwrite \in BOOLEAN :
                Constructs(d, Move(Self, store, path, dst_path, overwrite, up, ok))
    /\ \A directory \in Dirs, ok \in BOOLEAN :
          \A names \in ListedNames(up) :
              Constructs(d, Listing(Self, store, directory, names, up, ok))

(* C18 as stated: once the construction of a remote-transfer disk has      *)
(* failed, every selectDisk, getAdapter or file operation on that disk made *)
(* while the host is reachable constructs and caches its adapter.           *)
C18_Original ==
    \A d \in SftpDisks :
        (FailedSoFar(d) /\ active_disk = d) =>
            /\ Constructs(d, Disk(Self, d, TRUE))
            /\ Constructs(d, GetAdapter(Self, TRUE))
            /\ EveryFileOpConstructs(d, TRUE, LocalSources)

(* C18: a remote-transfer disk whose construction failed is not remembered *)
(* as failed: a selectDisk, a getAdapter or a file operation that reaches   *)
(* the adapter lookup (every one but an uploadLocalFile whose local source  *)
(* cannot be opened), made on it while the host is reachable, constructs    *)
(* and caches its adapter, whatever was called in between; so, if such an   *)
(* access is eventually made, a disk that has failed eventually becomes     *)
(* Ready.                                                                   *)
C18_SftpRecovers ==
    \A d \in SftpDisks :
        [](FailedSoFar(d) =>
              /\ Constructs(d, Disk(Self, d, TRUE))
              /\ Disk(Self, d, TRUE).self.filesystem[d].fs = "SFTPFS"
              /\ active_disk = d =>
                    /\ Constructs(d, GetAdapter(Self, TRUE))
                    /\ EveryFileOpConstructs(d, TRUE, {LocalReadable})
              /\ <>Ready(d))

\* the host was down for two accesses and up for the third
C18_Witness ==
    \E d \in SftpDisks :
        /\ constructions[d] >= 3
        /\ Ready(d)
        /\ active_disk = d

----------------------------------------------------------------------------
\* the latest call is a file operation or get_adapter()
Delegated == last.op \notin {"__init__", "disk"}

\* the latest call is a put() whose local source could not be opened
SourceUnopened == last.op = "put" /\ last.args[1] # LocalReadable

(* C19 as stated: a file operation or getAdapter called while no disk is   *)
(* active selects default_disk as the active disk.                         *)
C19_Original ==
    [][(active_disk = None /\ Delegated') => active_disk' = default_disk]_vars

(* C19: a getAdapter or a file operation that reaches the adapter lookup   *)
(* (every one but an uploadLocalFile whose local source cannot be opened), *)
(* called while no disk is active, selects default_disk, attempts the      *)
(* construction of its adapter, caches it and returns or uses it when the  *)
(* construction succeeds, and touches the backend of no other disk; the    *)
(* excepted uploadLocalFile leaves the facade and every backend as it was. *)
C19_FreshUsesDefault ==
    [][(active_disk = None /\ Delegated') =>
          IF SourceUnopened'
          THEN /\ active_disk' = None
               /\ filesystem' = filesystem
               /\ store' = store
               /\ last'.build = "none"
          ELSE /\ active_disk' = default_disk
               /\ last'.build \in {"built", "failed"}
               /\ constructions' =
                      [constructions EXCEPT ![default_disk] = @ + 1]
               /\ last'.build = "failed" =>
                      /\ filesystem' = filesystem
                      /\ store' = store
                      /\ last'.ret = RetNone \/ last'.ret = RetBool(FALSE)
                             \/ last'.ret = RetList(<<>>)
               /\ last'.build = "built" =>
                      /\ DOMAIN filesystem' = DOMAIN filesystem \cup {default_disk}
                      /\ BuiltFrom(filesystem'[default_disk], config[default_disk])
                      /\ \A u \in DOMAIN store :
                             u # filesystem'[default_disk] => store'[u] = store[u]
                      /\ last'.op = "get_adapter" =>
                             last'.ret = RetAdapter(filesystem'[default_disk])
                      /\ (last'.op = "write" /\ last'.log = "none") =>
                             store'[filesystem'[default_disk]][last'.args[1]]
                                 = last'.args[2]]_vars

\* the first call on the facade was a write, served by the default disk
C19_Witness ==
    /\ calls = 1
    /\ last.op = "write"
    /\ last.log = "none"
    /\ active_disk = default_disk
    /\ default_disk \in DOMAIN filesystem
    /\ store[filesystem[default_disk]][last.args[1]] = last.args[2]

----------------------------------------------------------------------------
\* the latest call is a file operation
FileOperation ==
    last.op \in {"write", "get", "delete", "is_exist", "put", "listing", "move"}

(* C20: a file operation leaves the active disk as it is once one is set,  *)
(* leaves every cache entry as it is and adds at most the entry of the     *)
(* active disk, and leaves unchanged the files of every backend but the    *)
(* one of the adapter cached under the active disk, whether the operation  *)
(* succeeds or fails.                                                      *)
C20_OnlyActiveDisk ==
    [][FileOperation' =>
          /\ active_disk # None => active_disk' = active_disk
          /\ \A n \in DOMAIN filesystem :
                n \in DOMAIN filesystem' /\ filesystem'[n] = filesystem[n]
          /\ DOMAIN filesystem' \subseteq DOMAIN filesystem \cup {active_disk'}
          /\ config' = config
          /\ \A u \in DOMAIN store :
                (active_disk' \in DOMAIN filesystem' => u # filesystem'[active_disk'])
                    => store'[u] = store[u]]_vars

\* a file was uploaded to the active disk 's3' while the default disk is
\* cached and holds a file
C20_Witness ==
    /\ last.op = "put"
    /\ last.out = "uploaded"
    /\ active_disk = "s3"
    /\ {"s3", default_disk} \subseteq DOMAIN filesystem
    /\ Present(store[filesystem[default_disk]]) # {}
    /\ store[filesystem["s3"]][last.args[2]] = LocalContent

====
